---- MODULE Spec2Model ----
(***************************************************************************)
(* placecage-rust: the image pipeline of src/main.rs.                      *)
(*                                                                         *)
(* get_image validates the request, applies the defaults, creates the      *)
(* output directory, selects a source image, and resize_to_fill decodes    *)
(* the source, picks a filter, and saves the result over the output path.  *)
(* The three endpoints call get_image and then open the returned path.     *)
(*                                                                         *)
(* A u32 is a pair <<hi, lo>> of 16-bit limbs, so that the arithmetic of   *)
(* the program keeps its 32-bit width.  A path is the sequence of its      *)
(* '/'-separated components: format!("{a}/{b}") is the concatenation of    *)
(* the components of a and of b, and a trailing or doubled '/' is an empty *)
(* component.                                                              *)
(***************************************************************************)
EXTENDS Integers, Sequences, FiniteSets, TLC

VARIABLES
    workers,          \* per worker: the request it handles and where it is
    dirs,             \* directories that exist under the working directory
    gen,              \* files under images/_gen: resolved path -> content
    calls,            \* requests accepted so far, when they are counted
    overflow_checks,  \* build profile: does u32 overflow panic (debug) or wrap
    shared            \* the cache key all requests share, or NoKey

vars == <<workers, dirs, gen, calls, overflow_checks, shared>>

----------------------------------------------------------------------------
(* Bounds *)

NumWorkers == 2
MaxCalls == 1
NumChunks == 1
MaxCount == 43

Workers == 1..NumWorkers
Chunks == 1..NumChunks

----------------------------------------------------------------------------
(* u32 arithmetic *)

Radix == 65536

U32(hi, lo) == <<hi, lo>>

Lit(n) == <<0, n>>

\* a + b before reduction: the low limb and the unreduced high limb
CarryAdd(a, b) ==
    [lo |-> (a[2] + b[2]) % Radix,
     hi |-> a[1] + b[1] + ((a[2] + b[2]) \div Radix)]

\* does a + b leave the u32 range
Overflows(a, b) == CarryAdd(a, b).hi >= Radix

\* a + b as a build without overflow checks computes it
WrappingAdd(a, b) == <<CarryAdd(a, b).hi % Radix, CarryAdd(a, b).lo>>

\* a > n, for a literal n below Radix
GtU32(a, n) == a[1] > 0 \/ a[2] > n

\* a % c, for 0 < c < Radix
RemU32(a, c) == ((a[1] % c) * (Radix % c) + (a[2] % c)) % c

Digits == <<"0", "1", "2", "3", "4", "5", "6", "7", "8", "9">>

\* a divided by ten: quotient (a u32) and remainder
DivMod10(a) ==
    LET t == (a[1] % 10) * Radix + a[2]
    IN  [q |-> <<a[1] \div 10, t \div 10>>, r |-> t % 10]

RECURSIVE DisplayU32(_)
\* Display of a u32: its decimal digits, no sign, no padding
DisplayU32(a) ==
    IF a[1] = 0 /\ a[2] < 10
    THEN Digits[a[2] + 1]
    ELSE DisplayU32(DivMod10(a).q) \o Digits[DivMod10(a).r + 1]

----------------------------------------------------------------------------
(* Subject, ImageKind and the catalog *)

Subject == {"Cage", "Murray", "Segall"}

ImageKind == {"Default", "Crazy", "Gif"}

None == "None"

DisplaySubject(subject) ==
    CASE subject = "Cage" -> "cage"
      [] subject = "Murray" -> "murray"
      [] subject = "Segall" -> "segall"

DisplayImageKind(kind) ==
    CASE kind = "Crazy" -> "crazy"
      [] kind = "Default" -> "default"
      [] kind = "Gif" -> "gif"

get_image_count_shifted(subject, kind) ==
    CASE subject = "Cage" /\ kind = "Crazy" -> 33
      [] subject = "Cage" /\ kind = "Default" -> 23
      [] subject = "Cage" /\ kind = "Gif" -> 43
      [] subject = "Murray" /\ kind = "Default" -> 23
      [] subject = "Segall" /\ kind = "Default" -> 30
      [] OTHER -> 0

get_image_count(subject, kind) ==
    CASE subject = "Cage" /\ kind = "Crazy" -> 23
      [] subject = "Cage" /\ kind = "Default" -> 33
      [] subject = "Cage" /\ kind = "Gif" -> 43
      [] subject = "Murray" /\ kind = "Default" -> 23
      [] subject = "Segall" /\ kind = "Default" -> 30
      [] OTHER -> 0

----------------------------------------------------------------------------
(* get_image: the local computations *)

MaxSum == 7000

FilterThreshold == 3000

\* line 102: width + height > 7000, on the sum the build computes
exceeds_limit(width, height) == GtU32(WrappingAdd(width, height), MaxSum)

subject_or_default(subject_op) ==
    IF subject_op = None THEN "Cage" ELSE subject_op

kind_or_crazy(kind_op) ==
    IF kind_op = None THEN "Crazy" ELSE kind_op

kind_or_default(kind_op) ==
    IF kind_op = None THEN "Default" ELSE kind_op

\* env::current_dir(), as components: an absolute path
cur_path == <<"", "srv">>

input_dir(subject, kind) ==
    cur_path \o <<"images", "source", DisplaySubject(subject),
                  DisplayImageKind(kind), "">>

output_dir(subject, kind) ==
    cur_path \o <<"images", "_gen", DisplaySubject(subject),
                  DisplayImageKind(kind), "">>

selected_image_zero_based(width, height, image_count) ==
    RemU32(WrappingAdd(width, height), image_count)

\* line 116, evaluated only with image_count > 0
selected_image(width, height, image_count) ==
    RemU32(WrappingAdd(width, height), image_count) + 1

input_file(dir, selected) ==
    dir \o <<DisplayU32(Lit(selected)) \o ".jpg">>

output_file_by_width(dir, width, height) ==
    dir \o <<DisplayU32(width) \o "x" \o DisplayU32(width) \o ".jpg">>

output_file(dir, width, height) ==
    dir \o <<DisplayU32(width) \o "x" \o DisplayU32(height) \o ".jpg">>

\* the file or directory a path names: empty components do not count
Resolve(path) == SelectSeq(path, LAMBDA c : c # "")

\* create_dir_all: the directory and every missing ancestor of it
DirChain(path) ==
    {SubSeq(Resolve(path), 1, n) : n \in Len(Resolve(cur_path)) + 1 .. Len(Resolve(path))}

----------------------------------------------------------------------------
(* resize_to_fill and resize_to_fill_io: the local computations *)

filter(width, height) ==
    IF GtU32(WrappingAdd(width, height), FilterThreshold)
    THEN "Nearest"
    ELSE "CatmullRom"

\* resize_to_fill_io: the io::ErrorKind given to each ImageError
io_error_kind(image_error) ==
    CASE image_error = "Decoding" -> "InvalidData"
      [] image_error = "Encoding" -> "Unsupported"
      [] image_error = "IoError" -> "Other"
      [] image_error = "Limits" -> "Unsupported"
      [] image_error = "Parameter" -> "InvalidInput"
      [] image_error = "Unsupported" -> "Unsupported"

\* what ImageReader::open(..)?.decode()? makes of the source file's state
decode_error(source_state) ==
    CASE source_state = "missing" -> "IoError"
      [] source_state = "corrupt" -> "Decoding"

SourceStates == {"ok", "missing", "corrupt"}

\* the ImageErrors save() can return once the file is open
SaveErrors == {"IoError", "Encoding"}

----------------------------------------------------------------------------
(* State *)

\* the content of a file: the set of its chunks that hold image data
File(data) == [exists |-> TRUE, data |-> data]

Absent == [exists |-> FALSE, data |-> {}]

NoKey == "nokey"

\* the (subject, kind, width, height) of a request, defaults applied
CacheKey(subject_op, kind_op, width, height) ==
    <<subject_or_default(subject_op), kind_or_default(kind_op), width, height>>

Idle ==
    [pc |-> "idle", width |-> Lit(0), height |-> Lit(0),
     subject_op |-> None, kind_op |-> None, subject |-> None, kind |-> None,
     selected |-> 0, input_file |-> <<>>, output_file |-> <<>>,
     filter |-> None, offset |-> 0,
     result |-> None, err |-> None, cause |-> None,
     fs_access |-> FALSE, served |-> None]

\* the content of the file at a path, or Absent
Content(path) ==
    IF Resolve(path) \in DOMAIN gen THEN File(gen[Resolve(path)].data) ELSE Absent

\* (width, height) pairs the endpoints are called with
DimPairs ==
    {<<Lit(100), Lit(200)>>, <<Lit(1500), Lit(1500)>>, <<Lit(1500), Lit(1501)>>,
     <<Lit(3500), Lit(3500)>>, <<Lit(3500), Lit(3501)>>,
     <<Lit(32), Lit(33)>>, <<U32(1, 0), Lit(0)>>,
     <<U32(65535, 65535), Lit(1)>>, <<U32(65535, 65535), Lit(7001)>>}

\* cache keys of the runs in which every request has the same key
SharedKeys ==
    {<<"Cage", "Default", Lit(100), Lit(200)>>,
     <<"Cage", "Crazy", Lit(1500), Lit(1500)>>,
     <<"Cage", "Gif", Lit(3500), Lit(3500)>>,
     <<"Murray", "Default", Lit(1500), Lit(1501)>>,
     <<"Segall", "Default", Lit(100), Lit(200)>>}

\* what an earlier run of the server can have left at an output path
PriorContents == {Absent, File({}), File(Chunks)}

Init ==
    /\ workers = [wk \in Workers |-> Idle]
    /\ dirs = {}
    /\ gen = <<>>
    /\ calls = 0
    /\ overflow_checks \in BOOLEAN
    /\ shared = NoKey

InitShared ==
    /\ workers = [wk \in Workers |-> Idle]
    /\ calls = 0
    /\ overflow_checks \in BOOLEAN
    /\ shared \in SharedKeys
    /\ \E prior \in PriorContents :
         LET dir == output_dir(shared[1], shared[2])
             file == Resolve(output_file(dir, shared[3], shared[4]))
         IN  IF prior = Absent
             THEN dirs = {} /\ gen = <<>>
             ELSE /\ dirs = DirChain(dir)
                  /\ gen = (file :> [data |-> prior.data, keys |-> {shared}])

----------------------------------------------------------------------------
(* Actions *)

Set(wk, rec) == workers' = [workers EXCEPT ![wk] = rec]

\* a worker takes a request (the workers are alike: the first idle one does):
\* one request at a time, or, in the runs with a shared cache key, any
\* request with that key while a worker is idle
Admit(wk, key) ==
    /\ workers[wk].pc = "idle"
    /\ \A o \in Workers : o < wk => workers[o].pc # "idle"
    /\ IF shared = NoKey
       THEN calls < MaxCalls /\ \A o \in Workers : workers[o].pc = "idle"
       ELSE key = shared

\* get_image, lines 102-112: the bound check, the defaults, the directories.
\* The worker's state when the first filesystem call is due, or the call is over
get_image_entry(width, height, subject_op, kind_op) ==
    LET call == [Idle EXCEPT !.width = width, !.height = height,
                             !.subject_op = subject_op, !.kind_op = kind_op]
    IN  IF Overflows(width, height) /\ overflow_checks
        THEN [call EXCEPT !.pc = "done", !.result = "panic", !.cause = "overflow"]
        ELSE IF exceeds_limit(width, height)
        THEN [call EXCEPT !.pc = "done", !.result = "Err",
                          !.err = "InvalidInput", !.cause = "limit"]
        ELSE [call EXCEPT !.pc = "create_dir_all",
                          !.subject = subject_or_default(subject_op),
                          !.kind = kind_or_default(kind_op)]

get_image(wk, width, height, subject_op, kind_op) ==
    /\ Admit(wk, CacheKey(subject_op, kind_op, width, height))
    /\ calls' = IF shared = NoKey THEN calls + 1 ELSE calls
    /\ Set(wk, get_image_entry(width, height, subject_op, kind_op))
    /\ UNCHANGED <<dirs, gen, overflow_checks, shared>>

get_image_endpoint(wk) ==
    \E subject \in Subject, kind \in ImageKind, d \in DimPairs :
        get_image(wk, d[1], d[2], subject, kind)

get_no_kind_image_endpoint(wk) ==
    \E subject \in Subject, d \in DimPairs :
        get_image(wk, d[1], d[2], subject, None)

get_no_kind_no_subject_image_endpoint(wk) ==
    \E d \in DimPairs : get_image(wk, d[1], d[2], None, None)

\* get_image, lines 113-118: create_dir_all, then the selection and the paths
create_dir_all(wk) ==
    LET w == workers[wk]
        dir == output_dir(w.subject, w.kind)
        image_count == get_image_count(w.subject, w.kind)
        selected == selected_image(w.width, w.height, image_count)
    IN  /\ w.pc = "create_dir_all"
        /\ dirs' = dirs \cup DirChain(dir)
        /\ IF image_count = 0
           THEN Set(wk, [w EXCEPT !.pc = "done", !.result = "panic",
                                  !.subject_op = None, !.kind_op = None,
                                  !.cause = "zero_count", !.fs_access = TRUE])
           ELSE Set(wk, [w EXCEPT !.pc = "decode", !.fs_access = TRUE,
                                  !.subject_op = None, !.kind_op = None,
                                  !.selected = selected,
                                  !.input_file =
                                      input_file(input_dir(w.subject, w.kind), selected),
                                  !.output_file =
                                      output_file(dir, w.width, w.height)])
        /\ UNCHANGED <<gen, calls, overflow_checks, shared>>

\* create_dir_all fails (permissions, a file in the way): the error is returned
create_dir_all_fails(wk) ==
    LET w == workers[wk]
    IN  /\ w.pc = "create_dir_all"
        /\ Set(wk, [w EXCEPT !.pc = "done", !.result = "Err", !.fs_access = TRUE,
                             !.subject_op = None, !.kind_op = None,
                             !.err = "PermissionDenied", !.cause = "mkdir"])
        /\ UNCHANGED <<dirs, gen, calls, overflow_checks, shared>>

\* resize_to_fill, lines 64-70: open and decode the source, pick the filter
decode(wk) ==
    LET w == workers[wk]
    IN  /\ w.pc = "decode"
        /\ \E source_state \in SourceStates :
             IF source_state = "ok"
             THEN Set(wk, [w EXCEPT !.pc = "save",
                                    !.filter = filter(w.width, w.height)])
             ELSE Set(wk, [w EXCEPT !.pc = "done", !.result = "Err",
                                    !.err = io_error_kind(decode_error(source_state)),
                                    !.cause = source_state])
        /\ UNCHANGED <<dirs, gen, calls, overflow_checks, shared>>

\* save, line 71: the output file is created, or truncated if it exists
save_create(wk) ==
    LET w == workers[wk]
        file == Resolve(w.output_file)
        key == CacheKey(w.subject, w.kind, w.width, w.height)
        keys == IF file \in DOMAIN gen THEN gen[file].keys ELSE {}
    IN  /\ w.pc = "save"
        /\ gen' = (file :> [data |-> {}, keys |-> keys \cup {key}]) @@ gen
        /\ Set(wk, [w EXCEPT !.pc = "write", !.offset = 0])
        /\ UNCHANGED <<dirs, calls, overflow_checks, shared>>

\* save, line 71: the output file cannot be opened for writing
save_create_fails(wk) ==
    LET w == workers[wk]
    IN  /\ w.pc = "save"
        /\ Set(wk, [w EXCEPT !.pc = "done", !.result = "Err",
                             !.err = io_error_kind("IoError"), !.cause = "open"])
        /\ UNCHANGED <<dirs, gen, calls, overflow_checks, shared>>

\* save, line 71: the encoder writes the next chunk at this writer's offset;
\* after the last one get_image returns Ok(output_file)
save_write(wk) ==
    LET w == workers[wk]
        file == Resolve(w.output_file)
        data == gen[file].data \cup {w.offset + 1}
    IN  /\ w.pc = "write"
        /\ gen' = [gen EXCEPT ![file].data = data]
        /\ IF w.offset + 1 = NumChunks
           THEN Set(wk, [w EXCEPT !.pc = "open_async", !.offset = NumChunks,
                                  !.result = "Ok"])
           ELSE Set(wk, [w EXCEPT !.offset = w.offset + 1])
        /\ UNCHANGED <<dirs, calls, overflow_checks, shared>>

\* save, line 71: encoding or writing fails after the file was opened
save_write_fails(wk) ==
    LET w == workers[wk]
    IN  /\ w.pc = "write"
        /\ \E image_error \in SaveErrors :
             Set(wk, [w EXCEPT !.pc = "done", !.result = "Err",
                               !.err = io_error_kind(image_error),
                               !.cause = IF image_error = "IoError"
                                         THEN "write" ELSE "encode"])
        /\ UNCHANGED <<dirs, gen, calls, overflow_checks, shared>>

\* the endpoint, lines 146, 169, 187: the returned path is opened and served
open_async(wk) ==
    LET w == workers[wk]
    IN  /\ w.pc = "open_async"
        /\ Set(wk, [w EXCEPT !.pc = "done",
                             !.served = IF Content(w.output_file) = File(Chunks)
                                        THEN "complete" ELSE "partial"])
        /\ UNCHANGED <<dirs, gen, calls, overflow_checks, shared>>

\* the response (or the panic) has left the worker
respond(wk) ==
    /\ workers[wk].pc = "done"
    /\ Set(wk, Idle)
    /\ UNCHANGED <<dirs, gen, calls, overflow_checks, shared>>

Next ==
    \E wk \in Workers :
        \/ get_image_endpoint(wk)
        \/ get_no_kind_image_endpoint(wk)
        \/ get_no_kind_no_subject_image_endpoint(wk)
        \/ create_dir_all(wk)
        \/ create_dir_all_fails(wk)
        \/ decode(wk)
        \/ save_create(wk)
        \/ save_create_fails(wk)
        \/ save_write(wk)
        \/ save_write_fails(wk)
        \/ open_async(wk)
        \/ respond(wk)

\* one request in flight at a time, starting from an empty cache
Spec == Init /\ [][Next]_vars

\* concurrent requests with one cache key, starting from any cache content
SpecShared == InitShared /\ [][Next]_vars

----------------------------------------------------------------------------
(* The claims *)

W(wk) == workers[wk]

\* the subject and kind a worker's request stands for
ReqSubject(w) == IF w.subject # None THEN w.subject
                 ELSE IF w.subject_op = None THEN "Cage" ELSE w.subject_op

ReqKind(w) == IF w.kind # None THEN w.kind
              ELSE IF w.kind_op = None THEN "Default" ELSE w.kind_op

Busy(w) == w.pc # "idle"

\* the worker is past the selection of line 116
Selected(w) == w.input_file # <<>>

\* the mathematical sum of two u32 is at most n (n below Radix)
SumAtMost(a, b, n) == a[1] = 0 /\ b[1] = 0 /\ a[2] + b[2] <= n

\* the path <base>/<tree>/<subject>/<kind>/<name> of the layout, base = ./images
LayoutPath(tree, subject, kind, name) ==
    <<"", "srv", "images", tree, subject, kind, name>>

\* C1: an unsupported (subject, kind) is answered with InvalidInput, before
\* any filesystem access and before the modulo: no panic, no directory made
\* (stated here for the widths and heights whose sum is a u32).
C1_UnsupportedIsInvalidInput ==
    \A wk \in Workers :
        (W(wk).pc = "done" /\ ~Overflows(W(wk).width, W(wk).height)
           /\ get_image_count(ReqSubject(W(wk)), ReqKind(W(wk))) = 0)
            => /\ W(wk).result = "Err"
               /\ W(wk).err = "InvalidInput"
               /\ ~W(wk).fs_access
               /\ Resolve(output_dir(ReqSubject(W(wk)), ReqKind(W(wk)))) \notin dirs

\* C2: the filesystem is reached only if the mathematical sum width + height
\* is at most 7000, and every larger sum is answered with InvalidInput.
C2_SumBound ==
    \A wk \in Workers :
        /\ (Busy(W(wk)) /\ (W(wk).fs_access \/ W(wk).pc = "create_dir_all"))
               => SumAtMost(W(wk).width, W(wk).height, 7000)
        /\ (W(wk).pc = "done" /\ ~SumAtMost(W(wk).width, W(wk).height, 7000))
               => W(wk).result = "Err" /\ W(wk).err = "InvalidInput"

\* C3: resize_to_fill has no partial success: when it returns an error the
\* output path is as it was before the call (here: the first call of a server
\* whose cache is empty, so the path is absent), and when it returns Ok the
\* path holds a complete image.
C3_NoPartialOutput ==
    \A wk \in Workers :
        /\ (W(wk).pc = "done" /\ calls = 1
              /\ W(wk).cause \in {"missing", "corrupt", "open", "write", "encode"})
               => Content(W(wk).output_file) = Absent
        /\ (W(wk).pc = "open_async" /\ calls = 1)
               => Content(W(wk).output_file) = File(Chunks)

\* C4 as stated: (cage, default, 100, 200) selects index 1 of 33, reads
\* <base>/source/cage/default/1.jpg, returns <base>/_gen/cage/default/100x200.jpg.
C4_EndToEndAsStated ==
    \A wk \in Workers :
        (Selected(W(wk)) /\ W(wk).subject = "Cage" /\ W(wk).kind = "Default"
           /\ W(wk).width = Lit(100) /\ W(wk).height = Lit(200))
            => /\ get_image_count("Cage", "Default") = 33
               /\ W(wk).selected = 1
               /\ W(wk).input_file = LayoutPath("source", "cage", "default", "1.jpg")
               /\ W(wk).result = "Ok"
                    => W(wk).output_file
                         = LayoutPath("_gen", "cage", "default", "100x200.jpg")

\* C4 amended: (cage, default, 100, 200) selects index 4 of 33, as
\* ((100+200) mod 33)+1, names the source file <base>/source/cage/default/4.jpg
\* and, when it succeeds, returns a path to <base>/_gen/cage/default/100x200.jpg;
\* both strings have a doubled separator before the file name.
C4_EndToEnd ==
    \A wk \in Workers :
        (Selected(W(wk)) /\ W(wk).subject = "Cage" /\ W(wk).kind = "Default"
           /\ W(wk).width = Lit(100) /\ W(wk).height = Lit(200))
            => /\ get_image_count("Cage", "Default") = 33
               /\ W(wk).selected = ((100 + 200) % 33) + 1
               /\ W(wk).selected = 4
               /\ W(wk).input_file
                    = <<"", "srv", "images", "source", "cage", "default", "", "4.jpg">>
               /\ Resolve(W(wk).input_file)
                    = Resolve(LayoutPath("source", "cage", "default", "4.jpg"))
               /\ W(wk).output_file
                    = <<"", "srv", "images", "_gen", "cage", "default", "", "100x200.jpg">>
               /\ Resolve(W(wk).output_file)
                    = Resolve(LayoutPath("_gen", "cage", "default", "100x200.jpg"))

C4_Witness ==
    \E wk \in Workers :
        /\ W(wk).pc = "open_async" /\ W(wk).result = "Ok"
        /\ W(wk).subject = "Cage" /\ W(wk).kind = "Default"
        /\ W(wk).width = Lit(100) /\ W(wk).height = Lit(200)
        /\ W(wk).selected = 4

\* C5: every failure is reported under the category of its cause: a missing,
\* unreadable or corrupt source as InvalidData, a failure to write the output
\* under the encode/write categories, and InvalidInput only for a sum over the
\* maximum or an unsupported combination.
C5_ErrorCategories ==
    \A wk \in Workers :
        (W(wk).pc = "done" /\ W(wk).result = "Err")
            => /\ W(wk).cause \in {"missing", "corrupt"} => W(wk).err = "InvalidData"
               /\ W(wk).cause \in {"open", "write", "encode"}
                    => W(wk).err \in {"Other", "Unsupported"}
               /\ W(wk).err = "InvalidInput" => W(wk).cause = "limit"
               /\ W(wk).cause = "missing"
                    => W(wk).err # io_error_kind("IoError")

\* the selected index and the output file the layout gives a cache key whose
\* width and height are below Radix
ExpectedIndex(key) ==
    ((key[3][2] + key[4][2]) % get_image_count(key[1], key[2])) + 1

ExpectedOutput(key) ==
    <<"srv", "images", "_gen", DisplaySubject(key[1]), DisplayImageKind(key[2]),
      DisplayU32(key[3]) \o "x" \o DisplayU32(key[4]) \o ".jpg">>

\* the files under _gen that requests with this cache key have written
FilesOf(key) == {f \in DOMAIN gen : key \in gen[f].keys}

C7_SelectionBounds ==
    /\ \A wk \in Workers :
         Selected(W(wk))
            => /\ W(wk).selected \in 1 .. get_image_count(W(wk).subject, W(wk).kind)
               /\ W(wk).input_file[Len(W(wk).input_file)]
                    = DisplayU32(Lit(W(wk).selected)) \o ".jpg"
               /\ W(wk).input_file[Len(W(wk).input_file)] # "0.jpg"
    /\ \A wk \in Workers, c \in 1 .. MaxCount :
         Busy(W(wk)) => selected_image(W(wk).width, W(wk).height, c) \in 1 .. c

C7_Witness ==
    \E wk \in Workers :
        /\ Selected(W(wk))
        /\ W(wk).subject = "Segall" /\ W(wk).kind = "Default"
        /\ W(wk).width = Lit(100) /\ W(wk).height = Lit(200)
        /\ W(wk).selected = 1

\* what the rest of a call reads of the worker's state: all but the options
Consumed(w) == [w EXCEPT !.subject_op = None, !.kind_op = None]

\* C8: a call without a kind does what the call with kind = default does, and
\* a call without subject and kind what the call with cage and default does:
\* the state get_image continues from (or the error it returns) is the same,
\* and nothing after line 107 reads the options.
C8_DefaultFallback ==
    \A wk \in Workers :
        /\ (W(wk).pc = "create_dir_all" \/ W(wk).cause \in {"limit", "overflow"})
              => Consumed(W(wk))
                   = Consumed(get_image_entry(
                         W(wk).width, W(wk).height,
                         IF W(wk).subject_op = None THEN "Cage" ELSE W(wk).subject_op,
                         IF W(wk).kind_op = None THEN "Default" ELSE W(wk).kind_op))
        /\ (Busy(W(wk)) /\ W(wk).pc # "create_dir_all"
              /\ W(wk).cause \notin {"limit", "overflow"})
              => W(wk).subject_op = None /\ W(wk).kind_op = None

C8_Witness ==
    \E wk \in Workers :
        /\ W(wk).pc = "create_dir_all"
        /\ W(wk).subject_op = "Murray" /\ W(wk).kind_op = None
        /\ W(wk).kind = "Default"

\* C9: the resizer uses Nearest exactly when width + height > 3000 and
\* CatmullRom otherwise.
C9_FilterRule ==
    \A wk \in Workers :
        W(wk).filter # None
            => (W(wk).filter = "Nearest"
                  <=> ~SumAtMost(W(wk).width, W(wk).height, 3000))

\* C10: with workers racing on one cache key, no request that reports
\* success is served a partial file, and once all workers have finished after
\* a success the output path holds a complete image.
C10_NoPartialServed ==
    /\ \A wk \in Workers : W(wk).served # None => W(wk).served = "complete"
    /\ ((\A wk \in Workers : W(wk).pc \in {"idle", "done"})
          /\ (\E wk \in Workers : W(wk).pc = "done" /\ W(wk).result = "Ok"))
          => gen[ExpectedOutput(shared)].data = Chunks

====
